---- MODULE Spec2Model ----
(***************************************************************************)
(* The call-handling state machine of src/app.js: the express-session      *)
(* state of each phone call (sessionId, conversationHistory, bookingInfo), *)
(* the four Twilio webhooks that read and write it (/voice, /gather,       *)
(* /process_speech, /handle-dial-status), the audio files written by       *)
(* textToSpeech and removed by /stream_audio, and the rows created through *)
(* prisma.aI_Booking.create.                                               *)
(*                                                                         *)
(* JavaScript values that may be undefined or null are wrapped:            *)
(*   JsUndefined, JsNull, Js(v).                                           *)
(* A JavaScript object is a function from its own property names to their  *)
(* values, so that {...a, ...b} is Spread(a, b) and the empty object is    *)
(* EmptyObj.  A handler is one atomic action: express-session loads the    *)
(* session when the request arrives and stores it when the response ends,  *)
(* and Twilio sends the next webhook of a call only after the response.    *)
(***************************************************************************)
EXTENDS Integers, Sequences, FiniteSets, TLC

VARIABLES
    \* call -> the call's req.session: sessionId, conversationHistory and
    \* bookingInfo (app.js 34-39; assigned at 223-225, 293-294, 325)
    session,
    \* call -> the request Twilio makes next for the call, as the latest
    \* response directs (app.js 232-236, 248-253, 285-290, 341)
    pc,
    \* names, without .mp3, of the files in audio/ (app.js 122-123, 204-207)
    audioFiles,
    \* the rows created by prisma.aI_Booking.create (app.js 86-93)
    aI_Booking,
    \* the module-level array conversationHistoryTemplate (app.js 69-81)
    conversationHistoryTemplate,
    \* call -> the number of <Dial> responses of the call so far; the program
    \* keeps no such count, it is recorded to state the properties
    transfers,
    \* the latest handler: its request, the state of its call when it started
    \* and its response; recorded to state the properties
    last

vars == <<session, pc, audioFiles, aI_Booking, conversationHistoryTemplate,
          transfers, last>>

----------------------------------------------------------------------------
(* Bounds of the model.                                                    *)

\* longest conversationHistory a turn may start from, plus the two it adds
MaxHistory == 6
\* most <Dial> responses explored in one call
MaxTransfers == 3
\* most rows explored in the booking table
MaxBookings == 2

\* The attempt limit the specification names; the source has no such limit.
MAX_ATTEMPTS == 3

----------------------------------------------------------------------------
(* JavaScript values.                                                      *)

JsUndefined == [kind |-> "undefined"]
JsNull == [kind |-> "null"]
Js(v) == [kind |-> "value", val |-> v]

EmptyObj == [f \in {} |-> ""]

\* `${x}` in a template literal
Str(j) == IF j.kind = "value" THEN j.val ELSE j.kind

\* {...j}: the own properties of an object; none for null and undefined
OwnProps(j) == IF j.kind = "value" THEN j.val ELSE EmptyObj

\* Falsy with a test for undefined alone: an empty string passes as speech
Falsy_UndefinedOnly(j) == j.kind # "value"

\* !userInput for a string or undefined
Falsy(j) == IF j.kind = "value" THEN j.val = "" ELSE TRUE

\* obj.f used as a condition: a present, non-empty string
Truthy(obj, f) == f \in DOMAIN obj /\ obj[f] # ""

\* Spread keeping the properties of b alone
Spread_SecondOnly(a, b) == b

\* { ...a, ...b }
Spread(a, b) ==
    [f \in DOMAIN a \cup DOMAIN b |-> IF f \in DOMAIN b THEN b[f] ELSE a[f]]

----------------------------------------------------------------------------
(* Constants of the program.                                               *)

SENTINEL == "TRANSFER_TO_MANAGER"

SystemPrompt ==
    "You are Neela, a friendly and knowledgeable phone call assistant from the Albany Hindu Temple in Albany, NY. Provide concise and helpful responses that are no longer than 2 lines. For puja bookings, collect name, email, phone, and puja name. If you cannot answer a question or if the user asks for a manager, respond with \"TRANSFER_TO_MANAGER\"."

Greeting == "Hello, I'm Neela from Albany Hindu Temple. How can I assist you today?"

TemplateInit ==
    << [role |-> "system", content |-> SystemPrompt],
       [role |-> "assistant", content |-> Greeting] >>

Fields == <<"name", "email", "phone", "pujaName">>

FieldSet == {Fields[i] : i \in 1..Len(Fields)}

BookingConfirmation ==
    "Perfect! I've recorded your booking for the puja. You'll receive a confirmation email shortly. Is there anything else you need help with?"

RepeatPrompt == "I'm sorry, I didn't catch that. Could you please repeat?"

TransferNotice == "I'll transfer you to our manager now. Please hold."

ManagerUnavailable ==
    "I apologize, but our manager is currently unavailable. I'll continue to assist you. What can I help you with?"

----------------------------------------------------------------------------
(* TwiML: a response is the sequence of its verbs.                         *)

Say(text) == [verb |-> "Say", arg |-> text]
Play(sessionId) == [verb |-> "Play", arg |-> "/stream_audio/" \o Str(sessionId)]
Redirect(url) == [verb |-> "Redirect", arg |-> url]
GatherVerb == [verb |-> "Gather", arg |-> "/process_speech"]
DialVerb == [verb |-> "Dial", arg |-> "/handle-dial-status"]
HangupVerb == [verb |-> "Hangup", arg |-> ""]

\* The request Twilio makes next for a response: it fetches the audio of a
\* <Play> it meets first; otherwise it follows the verb that ends the
\* document, the target of a <Redirect> or the action of a <Gather> or a
\* <Dial>; a document that ends otherwise ends the call.
Follow(twiml) ==
    LET v == twiml[Len(twiml)]
    IN  IF twiml[1].verb = "Play" THEN "stream_audio"
        ELSE IF v.verb = "Redirect" THEN "gather"
        ELSE IF v.verb = "Gather" THEN "process_speech"
        ELSE IF v.verb = "Dial" THEN "handle-dial-status"
        ELSE "ended"

----------------------------------------------------------------------------
(* createBooking, textToSpeech, generateResponse.                          *)

\* JSON.parse(responseMessage.function_call.arguments): throws on text that
\* is not JSON, and otherwise gives the object the text denotes.
JSONParse(arguments) ==
    [threw |-> ~arguments.wellFormed, value |-> arguments.value]

\* createBooking: one row of the four fields on success; rethrows the
\* database's error.
CreateBooking(bookingData, dbOk) ==
    [threw |-> ~dbOk,
     rows  |-> IF dbOk THEN << [f \in FieldSet |-> bookingData[f]] >> ELSE << >>]

\* textToSpeech: writes audio/<sessionId>.mp3 and returns its path, or
\* returns null when the request or the write fails.
TextToSpeech(text, sessionId, ttsOk) ==
    [audioPath |-> IF ttsOk THEN Js(Str(sessionId)) ELSE JsNull,
     written   |-> IF ttsOk THEN {Str(sessionId)} ELSE {}]

\* updatedBookingInfo.name && .email && .phone && .pujaName
IsComplete(o) ==
    /\ Truthy(o, "name")
    /\ Truthy(o, "email")
    /\ Truthy(o, "phone")
    /\ Truthy(o, "pujaName")

\* the four pushes onto missingFields, in the order of the code
MissingFields(o) ==
    (IF ~Truthy(o, "name") THEN <<"your name">> ELSE << >>)
    \o (IF ~Truthy(o, "email") THEN <<"your email address">> ELSE << >>)
    \o (IF ~Truthy(o, "phone") THEN <<"your phone number">> ELSE << >>)
    \o (IF ~Truthy(o, "pujaName") THEN <<"which puja you'd like to book">> ELSE << >>)

RECURSIVE Join(_, _)
\* Array.prototype.join
Join(seq, sep) ==
    IF Len(seq) = 0 THEN ""
    ELSE IF Len(seq) = 1 THEN seq[1]
    ELSE seq[1] \o sep \o Join(Tail(seq), sep)

\* MissingQuestion without the case of a single missing field
MissingQuestion_AlwaysList(missingFields) ==
    "I'll help you with the booking. Could you please provide "
        \o Join(missingFields, ", ") \o "?"

\* the question of lines 178-180
MissingQuestion(missingFields) ==
    IF Len(missingFields) = 1
    THEN "Could you please provide " \o missingFields[1] \o "?"
    ELSE "I'll help you with the booking. Could you please provide "
             \o Join(missingFields, ", ") \o "?"

\* the default parameter bookingInfo = {} : replaces undefined, keeps null
DefaultBookingInfo(bookingInfo) ==
    IF bookingInfo.kind = "undefined" THEN Js(EmptyObj) ELSE bookingInfo

\* CatchResult answering with the error text instead of the sentinel
CatchResult_ErrorText(bookingInfo) ==
    [response |-> "An error occurred. Please try again later.",
     bookingInfo |-> bookingInfo]

\* the catch block of generateResponse
CatchResult(bookingInfo) ==
    [response |-> SENTINEL, bookingInfo |-> bookingInfo]

\* BookedResult returning the merged draft instead of null
BookedResult_KeepsDraft(updatedBookingInfo) ==
    [response |-> BookingConfirmation, bookingInfo |-> Js(updatedBookingInfo)]

\* the return after a successful createBooking
BookedResult(updatedBookingInfo) ==
    [response |-> BookingConfirmation, bookingInfo |-> JsNull]

\* the return that asks for the missing fields
AskResult(updatedBookingInfo) ==
    [response    |-> MissingQuestion(MissingFields(updatedBookingInfo)),
     bookingInfo |-> Js(updatedBookingInfo)]

\* generateResponse(userInput, conversationHistory, bookingInfo) for one
\* outcome of the chat-completions request and one outcome of the database:
\* what it returns, the bookingData of each createBooking call it made and
\* the rows those calls created.
GenerateResponse(outcome, bookingInfoArg, dbOk) ==
    LET bookingInfo == DefaultBookingInfo(bookingInfoArg)
        Out(r, calls, rows) ==
            [response |-> r.response, bookingInfo |-> r.bookingInfo,
             createCalls |-> calls, rows |-> rows]
    IN  IF outcome.kind = "error"
        THEN Out(CatchResult(bookingInfo), << >>, << >>)
        ELSE IF outcome.kind = "content"
        THEN Out([response |-> outcome.content, bookingInfo |-> bookingInfo],
                 << >>, << >>)
        ELSE \* outcome.kind = "function_call"
        LET parsed == JSONParse(outcome.arguments)
        IN  IF parsed.threw
            THEN Out(CatchResult(bookingInfo), << >>, << >>)
            ELSE
            LET updatedBookingInfo == Spread(OwnProps(bookingInfo), parsed.value)
            IN  IF IsComplete(updatedBookingInfo)
                THEN LET created == CreateBooking(updatedBookingInfo, dbOk)
                     IN  IF created.threw
                         THEN Out(CatchResult(bookingInfo),
                                  <<updatedBookingInfo>>, created.rows)
                         ELSE Out(BookedResult(updatedBookingInfo),
                                  <<updatedBookingInfo>>, created.rows)
                ELSE Out(AskResult(updatedBookingInfo), << >>, << >>)

----------------------------------------------------------------------------
(* The handlers, as functions of the session they are given.               *)

\* SpeakTwiml without the <Say> that stands in for missing audio
SpeakTwiml_PlayOnly(audioPath, sessionId, text) ==
    (IF audioPath.kind = "value" THEN <<Play(sessionId)>> ELSE << >>)
    \o <<Redirect("/gather")>>

\* play the synthesized audio, or say the text when there is none; then
\* redirect to /gather
SpeakTwiml(audioPath, sessionId, text) ==
    << IF audioPath.kind = "value" THEN Play(sessionId) ELSE Say(text),
       Redirect("/gather") >>

\* the three assignments that open /voice
NewSession(c, template) ==
    [sessionId           |-> Js("sid-" \o c),
     conversationHistory |-> Js(template),
     bookingInfo         |-> Js(EmptyObj)]

\* POST /voice
VoiceHandler(c, template, ttsOk) ==
    LET sess  == NewSession(c, template)
        tts   == TextToSpeech(sess.conversationHistory.val[2].content,
                              sess.sessionId, ttsOk)
    IN  [session |-> sess,
         twiml   |-> SpeakTwiml(tts.audioPath, sess.sessionId,
                                sess.conversationHistory.val[2].content),
         written |-> tts.written]

\* POST /gather
GatherHandler == [twiml |-> <<GatherVerb>>]

\* HistoryOrTemplate starting every turn from a copy of the template
HistoryOrTemplate_AlwaysTemplate(sess, template) == template

\* req.session.conversationHistory || [...conversationHistoryTemplate]
HistoryOrTemplate(sess, template) ==
    IF sess.conversationHistory.kind = "value"
    THEN sess.conversationHistory.val
    ELSE template

\* Push adding the turn at the front, as unshift does
Push_Unshift(conversationHistory, role, content) ==
    <<[role |-> role, content |-> content]>> \o conversationHistory

\* conversationHistory.push({ role, content })
Push(conversationHistory, role, content) ==
    Append(conversationHistory, [role |-> role, content |-> content])

\* TemplateAfterPush for a fallback that is the template itself and not a copy
\* of it: the push lands on the template
TemplateAfterPush_Shared(sess, template, role, content) ==
    IF sess.conversationHistory.kind = "value"
    THEN template
    ELSE Push(template, role, content)

\* The template once a turn is pushed onto conversationHistory: the array is
\* the session's own or a copy of the template ([...]), so the template is as
\* it was.
TemplateAfterPush(sess, template, role, content) == template

\* The session once the user turn is pushed: the push is on the session's own
\* array when it has one, and on a local copy of the template when not.
AfterUserPush(sess, history) ==
    IF sess.conversationHistory.kind = "value"
    THEN [sess EXCEPT !.conversationHistory = Js(history)]
    ELSE sess

\* the two assignments to req.session of the reply branch
StoreReply(sess, history, bookingInfo) ==
    [sess EXCEPT !.conversationHistory = Js(history),
                 !.bookingInfo = bookingInfo]

\* IsEscalation comparing with the sentinel in lower case
IsEscalation_LowerCase(response) == response = "transfer_to_manager"

\* response === 'TRANSFER_TO_MANAGER'
IsEscalation(response) == response = SENTINEL

\* POST /process_speech
ProcessSpeechHandler(sess, userInput, outcome, dbOk, ttsOk, template) ==
    IF Falsy(userInput)
    THEN [session     |-> sess,
          template    |-> template,
          twiml       |-> <<Say(RepeatPrompt), Redirect("/gather")>>,
          gptCalls    |-> 0,
          createCalls |-> << >>,
          rows        |-> << >>,
          written     |-> {}]
    ELSE
    LET h1    == Push(HistoryOrTemplate(sess, template), "user", userInput.val)
        sess1 == AfterUserPush(sess, h1)
        t1    == TemplateAfterPush(sess, template, "user", userInput.val)
        gen   == GenerateResponse(outcome, sess.bookingInfo, dbOk)
    IN  IF IsEscalation(gen.response)
        THEN [session     |-> sess1,
              template    |-> t1,
              twiml       |-> <<Say(TransferNotice), DialVerb>>,
              gptCalls    |-> 1,
              createCalls |-> gen.createCalls,
              rows        |-> gen.rows,
              written     |-> {}]
        ELSE
        LET h2  == Push(h1, "assistant", gen.response)
            tts == TextToSpeech(gen.response, sess.sessionId, ttsOk)
        IN  [session     |-> StoreReply(sess1, h2, gen.bookingInfo),
             template    |-> TemplateAfterPush(sess, t1, "assistant",
                                               gen.response),
             twiml       |-> SpeakTwiml(tts.audioPath, sess.sessionId, gen.response),
             gptCalls    |-> 1,
             createCalls |-> gen.createCalls,
             rows        |-> gen.rows,
             written     |-> tts.written]

\* ResetHistory without the assignment: the history stays as the escalated
\* turn left it
ResetHistory_Keeps(sess, template) == sess

\* ResetHistory clearing the draft with the history, as /voice does
ResetHistory_AlsoDraft(sess, template) ==
    [sess EXCEPT !.conversationHistory = Js(template),
                 !.bookingInfo = Js(EmptyObj)]

\* req.session.conversationHistory = [...conversationHistoryTemplate]
ResetHistory(sess, template) ==
    [sess EXCEPT !.conversationHistory = Js(template)]

\* POST /handle-dial-status
HandleDialStatusHandler(sess, dialCallStatus, ttsOk, template) ==
    IF dialCallStatus # "completed"
    THEN LET tts == TextToSpeech(ManagerUnavailable, sess.sessionId, ttsOk)
         IN  [session |-> ResetHistory(sess, template),
              twiml   |-> SpeakTwiml(tts.audioPath, sess.sessionId,
                                     ManagerUnavailable),
              written |-> tts.written]
    ELSE [session |-> sess, twiml |-> <<HangupVerb>>, written |-> {}]

\* The session express-session makes for a request that carries no live
\* session: none of the three properties is set.
EmptySession ==
    [sessionId |-> JsUndefined, conversationHistory |-> JsUndefined,
     bookingInfo |-> JsUndefined]

----------------------------------------------------------------------------
(* The inputs the environment supplies.                                    *)

Calls == {"call1", "call2"}

\* the calls of the main specification; call2 never comes in
MainCalls == {"call1"}

\* req.body.SpeechResult
UserInputs == {JsUndefined, Js(""), Js("I want to book a puja")}

\* the arguments the model may pass to collectBookingInformation
Extractions ==
    { EmptyObj,
      [name |-> "Asha"],
      [name |-> "Asha", email |-> "asha@example.org", phone |-> "5185550100"],
      [pujaName |-> "Ganesh Puja"],
      [name |-> "Asha", email |-> "asha@example.org", phone |-> "5185550100",
       pujaName |-> "Ganesh Puja"],
      [name |-> "", pujaName |-> "Ganesh Puja"],
      [pujaName |-> " "] }

PlainReply == "The temple is open from 9 AM to 8 PM."

RequestError == [kind |-> "error"]
Content(text) == [kind |-> "content", content |-> text]
FunctionCall(wellFormed, value) ==
    [kind |-> "function_call",
     arguments |-> [wellFormed |-> wellFormed, value |-> value]]

\* what the chat-completions request may come back with
Outcomes ==
    {RequestError, Content(PlainReply), Content(SENTINEL),
     FunctionCall(FALSE, EmptyObj)}
    \cup {FunctionCall(TRUE, e) : e \in Extractions}

NoOutcome == [kind |-> "none"]

\* req.body.DialCallStatus
DialStatuses == {"completed", "no-answer"}

\* the session ids a /stream_audio request may name
AudioNames(calls) == {"sid-" \o c : c \in calls} \cup {"undefined"}

----------------------------------------------------------------------------
(* The state machine.                                                      *)

Range(seq) == {seq[i] : i \in 1..Len(seq)}

PreOf(c) == [session |-> session[c], transfers |-> transfers[c], pc |-> pc[c]]

NoPre == [session |-> EmptySession, transfers |-> 0, pc |-> ""]

Init ==
    /\ session = [c \in Calls |-> EmptySession]
    /\ pc = [c \in Calls |-> "voice"]
    /\ audioFiles = {}
    /\ aI_Booking = << >>
    /\ conversationHistoryTemplate = TemplateInit
    /\ transfers = [c \in Calls |-> 0]
    /\ last = [op |-> "init", call |-> "", pre |-> NoPre,
               userInput |-> JsUndefined, outcome |-> NoOutcome, status |-> "",
               gptCalls |-> 0, createCalls |-> << >>, rows |-> << >>,
               twiml |-> << >>]

\* A request to /voice for call c: the handler runs whatever the session of
\* the call holds.
VoiceRequest(c, ttsOk) ==
    /\ LET h == VoiceHandler(c, conversationHistoryTemplate, ttsOk)
       IN  /\ session' = [session EXCEPT ![c] = h.session]
           /\ pc' = [pc EXCEPT ![c] = Follow(h.twiml)]
           /\ audioFiles' = audioFiles \cup h.written
           /\ last' = [op |-> "voice", call |-> c, pre |-> PreOf(c),
                       userInput |-> JsUndefined, outcome |-> NoOutcome,
                       status |-> "", gptCalls |-> 0, createCalls |-> << >>,
                       rows |-> << >>, twiml |-> h.twiml]
    /\ UNCHANGED <<aI_Booking, conversationHistoryTemplate, transfers>>

\* Twilio requests /voice when the call comes in.
Voice(c, ttsOk) ==
    /\ pc[c] = "voice"
    /\ VoiceRequest(c, ttsOk)

\* /voice is requested again with the cookie of a call in progress, while the
\* caller is being listened to (a repeated webhook request; the route accepts
\* any POST).
VoiceAgain(c, ttsOk) ==
    /\ pc[c] = "process_speech"
    /\ session[c].sessionId # JsUndefined
    /\ VoiceRequest(c, ttsOk)

\* Twilio follows a <Redirect> to /gather.
Gather(c) ==
    /\ pc[c] = "gather"
    /\ pc' = [pc EXCEPT ![c] = Follow(GatherHandler.twiml)]
    /\ last' = [op |-> "gather", call |-> c, pre |-> PreOf(c),
                userInput |-> JsUndefined, outcome |-> NoOutcome,
                status |-> "", gptCalls |-> 0, createCalls |-> << >>,
                rows |-> << >>, twiml |-> GatherHandler.twiml]
    /\ UNCHANGED <<session, audioFiles, aI_Booking,
                   conversationHistoryTemplate, transfers>>

\* Twilio posts the result of the <Gather> to /process_speech.
ProcessSpeech(c, userInput, outcome, dbOk, ttsOk) ==
    /\ pc[c] = "process_speech"
    /\ LET h == ProcessSpeechHandler(session[c], userInput, outcome, dbOk,
                                     ttsOk, conversationHistoryTemplate)
           dials == IF DialVerb \in Range(h.twiml) THEN 1 ELSE 0
       IN  /\ \/ Falsy(userInput)
              \/ Len(HistoryOrTemplate(session[c], conversationHistoryTemplate))
                    + 2 <= MaxHistory
           /\ transfers[c] + dials <= MaxTransfers
           \* an outcome that is not consulted is taken once, as TRUE
           /\ (h.createCalls = << >>) => dbOk
           /\ (h.twiml[Len(h.twiml)] # Redirect("/gather") \/ Falsy(userInput))
                  => ttsOk
           /\ Len(aI_Booking) + Len(h.rows) <= MaxBookings
           /\ session' = [session EXCEPT ![c] = h.session]
           /\ pc' = [pc EXCEPT ![c] = Follow(h.twiml)]
           /\ audioFiles' = audioFiles \cup h.written
           /\ aI_Booking' = aI_Booking \o h.rows
           /\ transfers' = [transfers EXCEPT ![c] = @ + dials]
           /\ last' = [op |-> "process_speech", call |-> c, pre |-> PreOf(c),
                       userInput |-> userInput,
                       outcome |-> IF h.gptCalls = 0 THEN NoOutcome ELSE outcome,
                       status |-> IF h.createCalls = << >> THEN ""
                                  ELSE IF dbOk THEN "created" ELSE "db-error",
                       gptCalls |-> h.gptCalls, createCalls |-> h.createCalls,
                       rows |-> h.rows, twiml |-> h.twiml]
           /\ conversationHistoryTemplate' = h.template

\* Twilio posts the outcome of the <Dial> to /handle-dial-status.
HandleDialStatus(c, dialCallStatus, ttsOk) ==
    /\ pc[c] = "handle-dial-status"
    /\ LET h == HandleDialStatusHandler(session[c], dialCallStatus, ttsOk,
                                        conversationHistoryTemplate)
       IN  /\ session' = [session EXCEPT ![c] = h.session]
           /\ pc' = [pc EXCEPT ![c] = Follow(h.twiml)]
           /\ audioFiles' = audioFiles \cup h.written
           /\ last' = [op |-> "handle-dial-status", call |-> c,
                       pre |-> PreOf(c), userInput |-> JsUndefined,
                       outcome |-> NoOutcome, status |-> dialCallStatus,
                       gptCalls |-> 0, createCalls |-> << >>, rows |-> << >>,
                       twiml |-> h.twiml]
    /\ UNCHANGED <<aI_Booking, conversationHistoryTemplate, transfers>>

\* GET /stream_audio/:sessionId : the file is streamed and then removed by
\* cleanupAudioFile, or the answer is 404.  Twilio makes the request for the
\* <Play> of the response it is executing, whose URL names the session id of
\* the call, and then follows the <Redirect> after the <Play>.
StreamAudio(c, sessionId) ==
    /\ pc[c] = "stream_audio"
    /\ sessionId = Str(session[c].sessionId)
    /\ audioFiles' = audioFiles \ {sessionId}
    /\ pc' = [pc EXCEPT ![c] = "gather"]
    /\ last' = [op |-> "stream_audio", call |-> c, pre |-> PreOf(c),
                userInput |-> JsUndefined, outcome |-> NoOutcome,
                status |-> IF sessionId \in audioFiles THEN "200" ELSE "404",
                gptCalls |-> 0, createCalls |-> << >>, rows |-> << >>,
                twiml |-> << >>]
    /\ UNCHANGED <<session, aI_Booking, conversationHistoryTemplate,
                   transfers>>

\* The session cookie of a call runs out (maxAge) while Twilio waits for the
\* caller to speak or for the dialled manager: the next request of the call
\* gets a new, empty session.
Expire(c) ==
    /\ pc[c] \in {"process_speech", "handle-dial-status"}
    /\ session[c] # EmptySession
    /\ session' = [session EXCEPT ![c] = EmptySession]
    /\ last' = [op |-> "expire", call |-> c, pre |-> PreOf(c),
                userInput |-> JsUndefined, outcome |-> NoOutcome,
                status |-> "", gptCalls |-> 0, createCalls |-> << >>,
                rows |-> << >>, twiml |-> << >>]
    /\ UNCHANGED <<pc, audioFiles, aI_Booking, conversationHistoryTemplate,
                   transfers>>

Next ==
    \/ \E c \in MainCalls, ttsOk \in BOOLEAN : Voice(c, ttsOk)
    \/ \E c \in MainCalls, ttsOk \in BOOLEAN : VoiceAgain(c, ttsOk)
    \/ \E c \in MainCalls : Gather(c)
    \/ \E c \in MainCalls, userInput \in UserInputs, outcome \in Outcomes,
          dbOk \in BOOLEAN, ttsOk \in BOOLEAN :
            ProcessSpeech(c, userInput, outcome, dbOk, ttsOk)
    \/ \E c \in MainCalls, dialCallStatus \in DialStatuses, ttsOk \in BOOLEAN :
            HandleDialStatus(c, dialCallStatus, ttsOk)
    \/ \E c \in MainCalls, sessionId \in AudioNames(MainCalls) :
            StreamAudio(c, sessionId)
    \/ \E c \in MainCalls : Expire(c)

Spec == Init /\ [][Next]_vars

----------------------------------------------------------------------------
(* Two calls in progress at once.  Each request is one step: a handler     *)
(* reads and writes req.session of its own request and its local variables *)
(* only, so the awaits inside it give another call nothing to interleave   *)
(* with.  The inputs are fewer than those of Spec: one utterance, and the  *)
(* outcomes that speak, extract and escalate.                              *)

UserInputsTwo == {Js("I want to book a puja")}

OutcomesTwo ==
    {Content(PlainReply), Content(SENTINEL),
     FunctionCall(TRUE, [name |-> "Asha"])}

NextTwo ==
    \/ \E c \in Calls : Voice(c, TRUE)
    \/ \E c \in Calls : VoiceAgain(c, TRUE)
    \/ \E c \in Calls : Gather(c)
    \/ \E c \in Calls, userInput \in UserInputsTwo, outcome \in OutcomesTwo :
            ProcessSpeech(c, userInput, outcome, TRUE, TRUE)
    \/ \E c \in Calls, dialCallStatus \in DialStatuses :
            HandleDialStatus(c, dialCallStatus, TRUE)
    \/ \E c \in Calls, sessionId \in AudioNames(Calls) :
            StreamAudio(c, sessionId)
    \/ \E c \in Calls : Expire(c)

SpecTwo == Init /\ [][NextTwo]_vars

----------------------------------------------------------------------------
(* The merge of lines 155-156 on its own: the draft of a call is drawn     *)
(* from the drafts over the four fields, and each step merges one parsed   *)
(* extraction into it, as generateResponse does before it looks at the     *)
(* result.                                                                 *)

\* the objects that have some of the four fields, with values from vals
ObjectsOver(vals) == UNION {[S -> vals] : S \in SUBSET FieldSet}

\* req.session.bookingInfo at the start: values given earlier, or empty
MergeDrafts == ObjectsOver({"", "Asha"})

\* JSON.parse(responseMessage.function_call.arguments)
MergeExtractions == ObjectsOver({"", "Ravi"})

InitMerge ==
    /\ \E d \in MergeDrafts :
          session = [c \in Calls |->
                        IF c \in MainCalls
                        THEN [EmptySession EXCEPT !.bookingInfo = Js(d)]
                        ELSE EmptySession]
    /\ pc = [c \in Calls |-> "merge"]
    /\ audioFiles = {}
    /\ aI_Booking = << >>
    /\ conversationHistoryTemplate = TemplateInit
    /\ transfers = [c \in Calls |-> 0]
    /\ last = [op |-> "init", call |-> "", pre |-> NoPre,
               userInput |-> JsUndefined, outcome |-> NoOutcome, status |-> "",
               gptCalls |-> 0, createCalls |-> << >>, rows |-> << >>,
               twiml |-> << >>]

\* const updatedBookingInfo = { ...bookingInfo, ...functionArgs }, kept as
\* the draft of the call
Merge(c, functionArgs) ==
    /\ pc[c] = "merge"
    /\ session' = [session EXCEPT ![c].bookingInfo =
                       Js(Spread(OwnProps(DefaultBookingInfo(@)),
                                 functionArgs))]
    /\ last' = [op |-> "merge", call |-> c, pre |-> PreOf(c),
                userInput |-> JsUndefined,
                outcome |-> FunctionCall(TRUE, functionArgs),
                status |-> "", gptCalls |-> 0, createCalls |-> << >>,
                rows |-> << >>, twiml |-> << >>]
    /\ UNCHANGED <<pc, audioFiles, aI_Booking, conversationHistoryTemplate,
                   transfers>>

NextMerge == \E c \in MainCalls, functionArgs \in MergeExtractions :
                 Merge(c, functionArgs)

SpecMerge == InitMerge /\ [][NextMerge]_vars

----------------------------------------------------------------------------
(* Vocabulary of the properties.  `last` describes the handler that has    *)
(* just run: its inputs, the state of its call before it (last.pre) and    *)
(* its response; the state of the call after it is the current state.      *)

\* the session of the latest handler's call, after the handler
Cur == session[last.call]

\* the session of the latest handler's call, before the handler
Pre == last.pre.session

\* The transcript of a session: its stored conversationHistory, and the
\* template for a session that stores none (what the next turn would send).
Transcript(sess) ==
    IF sess.conversationHistory.kind = "value"
    THEN sess.conversationHistory.val
    ELSE conversationHistoryTemplate

\* the booking draft of a session: no fields when bookingInfo is null or unset
Draft(sess) == IF sess.bookingInfo.kind = "value" THEN sess.bookingInfo.val
               ELSE EmptyObj

IsPrefix(s, t) == Len(s) <= Len(t) /\ SubSeq(t, 1, Len(s)) = s

EmptyUtterance(userInput) == userInput = JsUndefined \/ userInput = Js("")

\* the latest handler was a /process_speech turn with an utterance
TurnDone == last.op = "process_speech" /\ ~EmptyUtterance(last.userInput)

\* the model call of that turn failed: the request failed, or the arguments
\* of its function call were malformed
ModelFailed ==
    \/ last.outcome.kind = "error"
    \/ /\ last.outcome.kind = "function_call"
       /\ ~last.outcome.arguments.wellFormed

\* the model's reply in that turn was exactly the sentinel
SentinelReturned ==
    /\ last.outcome.kind = "content"
    /\ last.outcome.content = SENTINEL

\* the latest handler was a turn in which the model called the booking
\* function with well-formed arguments
ExtractionDone ==
    /\ TurnDone
    /\ last.outcome.kind = "function_call"
    /\ last.outcome.arguments.wellFormed

\* the extraction of that turn, and the draft it was merged into
Extracted == last.outcome.arguments.value
Merged == Spread(Draft(Pre), Extracted)

AllFourPresent(o) == \A f \in FieldSet : IF f \in DOMAIN o THEN o[f] # "" ELSE FALSE

\* a string that is empty once trimmed
Blank(v) == v \in {"", " "}

\* the response speaks text to the caller and returns to /gather
Speaks(twiml, text) ==
    /\ Len(twiml) = 2
    /\ twiml[1].verb \in {"Play", "Say"}
    /\ twiml[1].verb = "Say" => twiml[1].arg = text
    /\ twiml[2] = Redirect("/gather")

Transfers(twiml) == DialVerb \in Range(twiml)

\* the latest handler was the callback of a transfer that did not complete
DialFailed == last.op = "handle-dial-status" /\ last.status # "completed"

----------------------------------------------------------------------------
(* C1 *)

\* C1: escalation is bounded per call: once MAX_ATTEMPTS - 1 transfers of the
\* call have been directed, a further turn in which the model returns the
\* sentinel or fails does not yield a Transfer, so no call receives a third
\* Transfer directive.
C1_ThirdEscalationDeclines ==
    (/\ TurnDone
     /\ SentinelReturned \/ ModelFailed
     /\ last.pre.transfers >= MAX_ATTEMPTS - 1) => ~Transfers(last.twiml)

----------------------------------------------------------------------------
(* C2 *)

----------------------------------------------------------------------------
(* C3 *)

\* C3: a turn with a non-empty utterance grows the call's transcript by
\* exactly one user turn carrying the utterance and at most one assistant
\* turn, whichever branch is taken (plain reply, complete booking,
\* incomplete booking, sentinel, model failure).
C3_OneUserTurnPerTurn ==
    (TurnDone /\ last.status # "db-error") =>
        LET before == Transcript(Pre)
            after  == Transcript(Cur)
            withUser == Append(before, [role |-> "user",
                                        content |-> last.userInput.val])
        IN  \/ after = withUser
            \/ /\ Len(after) = Len(withUser) + 1
               /\ SubSeq(after, 1, Len(withUser)) = withUser
               /\ after[Len(after)].role = "assistant"

----------------------------------------------------------------------------
(* C4 *)

\* C4: a turn with a null or empty utterance invokes neither the language
\* model nor the booking sink, answers with the clarification prompt and a
\* return to /gather, and leaves the session (transcript, draft) and the
\* transfer count of the call unchanged.
C4_EmptyUtteranceNoModelCall ==
    (last.op = "process_speech" /\ EmptyUtterance(last.userInput)) =>
        /\ last.gptCalls = 0
        /\ last.createCalls = << >>
        /\ last.twiml = <<Say(RepeatPrompt), Redirect("/gather")>>
        /\ Cur = Pre
        /\ transfers[last.call] = last.pre.transfers
        /\ pc[last.call] = "gather"

\* an empty (not undefined) utterance arrived in a call that has a
\* conversation and a partly filled draft
C4_Witness ==
    /\ last.op = "process_speech"
    /\ last.userInput = Js("")
    /\ Len(Transcript(Pre)) > 2
    /\ Draft(Pre) # EmptyObj

----------------------------------------------------------------------------
(* C5 *)

\* C5: when merging an extraction into the draft makes all four fields
\* present, createBooking is called exactly once, with the merged draft; when
\* it succeeds the stored draft is reset to empty, the confirmation is
\* appended as the assistant turn and spoken; and after the reset an
\* extraction of fewer than four fields causes no createBooking call.
C5_CompleteBookingSavedOnce ==
    /\ (ExtractionDone /\ AllFourPresent(Merged)) =>
          /\ last.createCalls = <<Merged>>
          /\ last.status = "created" =>
                /\ last.rows = <<Merged>>
                /\ Draft(Cur) = EmptyObj
                /\ Transcript(Cur) =
                      Transcript(Pre)
                      \o << [role |-> "user", content |-> last.userInput.val],
                            [role |-> "assistant", content |-> BookingConfirmation] >>
                /\ Speaks(last.twiml, BookingConfirmation)
    /\ (ExtractionDone /\ ~AllFourPresent(Extracted) /\ Pre.bookingInfo = JsNull)
          => last.createCalls = << >>

\* a booking was saved from a draft collected over more than one turn
C5_Witness ==
    /\ ExtractionDone
    /\ last.status = "created"
    /\ Cardinality(DOMAIN Extracted) < 4
    /\ Cardinality(DOMAIN Draft(Pre)) > 0

----------------------------------------------------------------------------
(* C6 *)

\* C6: when createBooking fails for a complete draft, the caller hears a
\* spoken reply that is not the confirmation and is not transferred, and the
\* stored draft holds all collected fields, those of this turn included.
C6_StorageErrorKeepsDraft ==
    (TurnDone /\ last.status = "db-error") =>
        /\ ~Transfers(last.twiml)
        /\ last.twiml[1].verb \in {"Play", "Say"}
        /\ last.twiml[1] # Say(BookingConfirmation)
        /\ Draft(Cur) = last.createCalls[1]

----------------------------------------------------------------------------
(* C7 *)

\* C7: merging overwrites a draft field only when the extracted value is
\* non-empty: a field whose extracted value is missing or the empty string
\* keeps its previous draft value.
C7_MergeKeepsFieldOnEmpty ==
    ExtractionDone =>
        \A f \in FieldSet :
            (IF f \in DOMAIN Extracted THEN Extracted[f] = "" ELSE TRUE) =>
                IF f \in DOMAIN Draft(Pre)
                THEN f \in DOMAIN Merged /\ Merged[f] = Draft(Pre)[f]
                ELSE IF f \in DOMAIN Merged THEN Merged[f] = "" ELSE TRUE

----------------------------------------------------------------------------
(* C8 *)

\* C8: the merged draft counts as complete exactly when each of the four
\* fields is present and not blank, and a draft with a missing, empty or
\* whitespace-only field never reaches createBooking.
C8_CompleteIffNoBlankField ==
    ExtractionDone =>
        LET noBlank(o) == \A f \in FieldSet :
                              IF f \in DOMAIN o THEN ~Blank(o[f]) ELSE FALSE
        IN  /\ IsComplete(Merged) <=> noBlank(Merged)
            /\ \A i \in 1..Len(last.createCalls) : noBlank(last.createCalls[i])

----------------------------------------------------------------------------
(* C9 *)

----------------------------------------------------------------------------
(* C10 *)

\* C10: a turn in which the model call fails (the request fails or the
\* function-call arguments are malformed) has the response and the next state
\* of the same turn with the model returning exactly the sentinel.
C10_FailureLikeSentinel ==
    (TurnDone /\ ModelFailed) =>
        LET s == ProcessSpeechHandler(Pre, last.userInput, Content(SENTINEL),
                                      TRUE, TRUE, conversationHistoryTemplate)
        IN  /\ Cur = s.session
            /\ last.twiml = s.twiml
            /\ pc[last.call] = Follow(s.twiml)
            /\ Transfers(last.twiml)
            /\ last.rows = << >>
            /\ transfers[last.call] = last.pre.transfers + 1

\* malformed arguments arrived in a call that holds a partly filled draft
C10_Witness ==
    /\ TurnDone
    /\ last.outcome.kind = "function_call"
    /\ ~last.outcome.arguments.wellFormed
    /\ Draft(Pre) # EmptyObj

----------------------------------------------------------------------------
(* C11 *)

\* the session the request arrived with is absent or expired: it holds
\* nothing that /voice stored
SessionAbsent(sess) == sess.sessionId = JsUndefined

\* C11: no turn is processed against an absent or expired session: a turn for
\* a call whose session is absent makes no model invocation, directs no
\* transfer, and creates or changes no transcript and no draft.
C11_NoTurnOnAbsentSession ==
    (TurnDone /\ SessionAbsent(Pre)) =>
        /\ last.gptCalls = 0
        /\ ~Transfers(last.twiml)
        /\ Cur = Pre

----------------------------------------------------------------------------
(* C12 *)

\* C12: creating a session for a call that already has a live session fails:
\* a /voice request for such a call does not greet the caller as a new call
\* and leaves the session of the call, its transcript and its draft, as they
\* were.
C12_DuplicateVoiceRejected ==
    (last.op = "voice" /\ ~SessionAbsent(Pre)) =>
        /\ ~Speaks(last.twiml, Greeting)
        /\ Cur.conversationHistory = Pre.conversationHistory
        /\ Cur.bookingInfo = Pre.bookingInfo

----------------------------------------------------------------------------
(* C13 *)

\* the fixed system instruction turn
SystemTurn == [role |-> "system", content |-> SystemPrompt]

\* C13: in every reachable state the first element of the transcript of every
\* call is the fixed system turn: of a stored transcript, whether stored by
\* /voice, by a turn, by a turn that fell back on the template or by the
\* callback of a failed transfer, and of the template a call without a stored
\* transcript starts from.
C13_SystemTurnFirst ==
    /\ Len(conversationHistoryTemplate) >= 1
    /\ conversationHistoryTemplate[1] = SystemTurn
    /\ \A c \in Calls :
          session[c].conversationHistory.kind = "value" =>
              /\ Len(session[c].conversationHistory.val) >= 1
              /\ session[c].conversationHistory.val[1] = SystemTurn

\* a turn on a session without a transcript has stored one, begun from the
\* template
C13_Witness ==
    /\ TurnDone
    /\ Pre.conversationHistory = JsUndefined
    /\ Cur.conversationHistory.kind = "value"
    /\ Len(Cur.conversationHistory.val) = 4

----------------------------------------------------------------------------
(* C14 *)

\* the fields a draft lacks (absent or empty), in the fixed order
Lacking(o) ==
    SelectSeq(Fields, LAMBDA f : IF f \in DOMAIN o THEN o[f] = "" ELSE TRUE)

\* how the question names a field
Naming(f) ==
    CASE f = "name"     -> "your name"
      [] f = "email"    -> "your email address"
      [] f = "phone"    -> "your phone number"
      [] f = "pujaName" -> "which puja you'd like to book"

\* the question that names the fields of m, in the order of m
QuestionFor(m) ==
    CASE Len(m) = 1 -> "Could you please provide " \o Naming(m[1]) \o "?"
      [] Len(m) = 2 ->
            "I'll help you with the booking. Could you please provide "
            \o Naming(m[1]) \o ", " \o Naming(m[2]) \o "?"
      [] Len(m) = 3 ->
            "I'll help you with the booking. Could you please provide "
            \o Naming(m[1]) \o ", " \o Naming(m[2]) \o ", " \o Naming(m[3])
            \o "?"
      [] Len(m) = 4 ->
            "I'll help you with the booking. Could you please provide "
            \o Naming(m[1]) \o ", " \o Naming(m[2]) \o ", " \o Naming(m[3])
            \o ", " \o Naming(m[4]) \o "?"

\* C14: when the extraction of a turn leaves the merged draft lacking a
\* field, no booking is attempted, the assistant turn appended and spoken is
\* the question naming exactly the lacking fields in the order name, email,
\* phone, puja name (a single lacking field is asked for alone), and the
\* merged draft is stored as the draft of the call.
C14_QuestionNamesMissingFields ==
    (ExtractionDone /\ Lacking(Merged) # << >>) =>
        /\ last.createCalls = << >>
        /\ Transcript(Cur) =
               Transcript(Pre)
               \o << [role |-> "user", content |-> last.userInput.val],
                     [role |-> "assistant",
                      content |-> QuestionFor(Lacking(Merged))] >>
        /\ Speaks(last.twiml, QuestionFor(Lacking(Merged)))
        /\ Cur.bookingInfo = Js(Merged)

\* an extraction was merged into a partly filled draft and left exactly one
\* field lacking
C14_Witness ==
    /\ ExtractionDone
    /\ Draft(Pre) # EmptyObj
    /\ Len(Lacking(Merged)) = 1
    /\ last.twiml[1].verb = "Say"

----------------------------------------------------------------------------
(* C15 *)

\* C15: no handler outcome leaves the caller in silence: the response of
\* every /process_speech request and of every /handle-dial-status request
\* begins with speech, a <Say> or a <Play> whose audio file exists, or holds a
\* <Dial> or a <Hangup>; so it is when text-to-speech, the model call or the
\* database fails.
C15_NoSilence ==
    last.op \in {"process_speech", "handle-dial-status"} =>
        /\ Len(last.twiml) >= 1
        /\ \/ last.twiml[1].verb = "Say"
           \/ /\ last.twiml[1] = Play(Cur.sessionId)
              /\ Str(Cur.sessionId) \in audioFiles
           \/ DialVerb \in Range(last.twiml)
           \/ HangupVerb \in Range(last.twiml)

\* text-to-speech failed for the reply of a turn, which was then said
C15_Witness ==
    /\ TurnDone
    /\ last.outcome.kind = "content"
    /\ last.twiml = <<Say(last.outcome.content), Redirect("/gather")>>

----------------------------------------------------------------------------
(* C16 *)

\* C16: calls are isolated: in every step of any interleaving of the requests
\* of two calls, the transcript and the draft of the call the request is not
\* for are left as they were, and the shared template is left as it was.
C16_CallsIsolated ==
    [][/\ conversationHistoryTemplate' = conversationHistoryTemplate
       /\ \A c \in Calls :
             c # last'.call =>
                 /\ session'[c].conversationHistory
                        = session[c].conversationHistory
                 /\ session'[c].bookingInfo = session[c].bookingInfo]_vars

\* a turn of call2 on a lost session, answered from a copy of the template,
\* while call1 holds a longer transcript and a partly filled draft
C16_Witness ==
    /\ TurnDone
    /\ last.call = "call2"
    /\ Pre.conversationHistory = JsUndefined
    /\ Len(Transcript(session["call1"])) > 2
    /\ Draft(session["call1"]) # EmptyObj
    /\ Transcript(session["call2"]) # Transcript(session["call1"])

----------------------------------------------------------------------------
(* C17 *)

\* C17: merge is idempotent, and two extractions whose field sets do not
\* overlap give the same draft in either order: after an extraction e is
\* merged into a draft d, merging e again changes nothing, and for every
\* extraction e2 that shares no field with e, merging e2 next gives the draft
\* that merging e2 first and e second gives.
C17_MergeIdempotentAndOrderFree ==
    last.op = "merge" =>
        /\ Draft(Cur) = Spread(Draft(Pre), Extracted)
        /\ Spread(Draft(Cur), Extracted) = Draft(Cur)
        /\ \A e2 \in MergeExtractions :
              DOMAIN e2 \cap DOMAIN Extracted = {} =>
                  Spread(Draft(Cur), e2)
                      = Spread(Spread(Draft(Pre), e2), Extracted)

\* an extraction that overrides one field of the draft and adds another was
\* merged, and the draft has a field that neither it nor a later extraction of
\* the two fields left over touches
C17_Witness ==
    /\ last.op = "merge"
    /\ Draft(Pre) = [name |-> "Asha", email |-> "Asha"]
    /\ Extracted = [name |-> "Ravi", phone |-> "Ravi"]
    /\ Draft(Cur) = [name |-> "Ravi", email |-> "Asha", phone |-> "Ravi"]

----------------------------------------------------------------------------
(* C18 *)

\* the sentinel as a turn of the assistant
SentinelTurn == [role |-> "assistant", content |-> SENTINEL]

\* C18: on the escalation path of a turn, the model having returned exactly
\* the sentinel or its call having failed, the stored draft of the call is
\* the one held before the turn, and the sentinel is neither said nor played
\* to the caller; and in no state does the stored transcript of a call hold
\* the sentinel as a turn of the assistant.
C18_EscalationKeepsDraftHidesSentinel ==
    /\ (TurnDone /\ (SentinelReturned \/ ModelFailed)) =>
           /\ Cur.bookingInfo = Pre.bookingInfo
           /\ Transfers(last.twiml)
           /\ \A i \in 1..Len(last.twiml) :
                 /\ last.twiml[i].verb # "Play"
                 /\ last.twiml[i] # Say(SENTINEL)
    /\ \A c \in Calls :
          session[c].conversationHistory.kind = "value" =>
              SentinelTurn \notin Range(session[c].conversationHistory.val)

\* the model returned the sentinel in a call that holds a partly filled draft
C18_Witness ==
    /\ TurnDone
    /\ SentinelReturned
    /\ Draft(Pre) # EmptyObj
    /\ Len(Transcript(Cur)) > 3

----------------------------------------------------------------------------
(* C19 *)

\* the call is being listened to, or is on its way to be: Twilio is playing
\* what was spoken, is requesting /gather, or is gathering speech
Waiting(c) == pc[c] \in {"stream_audio", "gather", "process_speech"}

\* the system turn, then assistant and user turns in strict alternation, the
\* last one of the assistant
Alternating(t) ==
    /\ Len(t) >= 2
    /\ Len(t) % 2 = 0
    /\ t[1].role = "system"
    /\ \A i \in 2..Len(t) :
          t[i].role = IF i % 2 = 0 THEN "assistant" ELSE "user"

\* C19: whenever a call waits for the caller's next utterance, the transcript
\* its session stores is the system turn followed by assistant and user turns
\* in strict alternation and ends with a turn of the assistant; a session
\* that stores none lets the next turn start from the template, which has
\* that shape too.
C19_AlternatingWhileWaiting ==
    \A c \in Calls :
        Waiting(c) =>
            IF session[c].conversationHistory.kind = "value"
            THEN Alternating(session[c].conversationHistory.val)
            ELSE Alternating(conversationHistoryTemplate)

\* a call that is listened to after two spoken replies
C19_Witness ==
    /\ last.op = "gather"
    /\ pc[last.call] = "process_speech"
    /\ Cur.conversationHistory.kind = "value"
    /\ Len(Cur.conversationHistory.val) = 6

====
